---- MODULE Spec2Model ----
(***************************************************************************)
(* A model of pathops.py, the Inkscape extension that applies a path       *)
(* operation between the top-most selected element and every other         *)
(* selected element.                                                       *)
(*                                                                         *)
(* The document is the sequence of its elements in document order (what    *)
(* lxml's node.iter() yields), each element carrying its nesting depth,    *)
(* its tag, whether it has a sodipodi:type attribute, and its id           *)
(* attribute.  An element is referred to by its position in that sequence. *)
(* Failures of the environment (inkscape missing, unreadable files) are    *)
(* not modelled.                                                           *)
(***************************************************************************)
EXTENDS Integers, Sequences, FiniteSets, TLC

VARIABLES
    doc,          \* the parsed document the extension was loaded with
    selected,     \* self.selected: the selected elements, in iteration order
    options,      \* self.options
    pc,           \* position of effect()
    id_list,      \* get_selected_ids(): id_list, as built before the size check
    top_path,     \* effect(): top_path
    other_paths,  \* effect(): other_paths
    batches,      \* the chunks the loop of effect() runs over
    chunk_no,     \* number of the chunk the loop is at
    running,      \* external processes started and not yet exited
    invocations,  \* every Popen made so far: [batch, cmd]
    results,      \* every exited process: [batch, returncode, saved]
    msgs,         \* what inkex.errormsg / inkex.debug showed the user
    tempfile,     \* the file <name>-pathops.svg: whether it exists, what was saved to it
    svg_file,     \* content of the source file
    document      \* self.document: the in-memory document

vars == <<doc, selected, options, pc, id_list, top_path, other_paths, batches,
          chunk_no, running, invocations, results, msgs, tempfile, svg_file,
          document>>

\* ----- bounds of the model

\* elements below the svg root in the nested documents
MaxNodes == 4
\* selected elements in the nested documents
MaxSel == 2
\* paths in the one-layer documents
MaxPaths == 5
\* largest --max_count tried
MaxCount == 3

\* ----- values

None == "<None>"

\* None where the code expects a list (no list the code builds looks like it)
NoList == <<None>>

IdNames == <<"a", "b", "c", "d", "e", "f", "g", "h", "i", "j">>

SVG_SHAPES == {"rect", "circle", "ellipse", "line", "polyline", "polygon"}

DefaultMaxCount == 500

DefaultInkVerb == "SelectionDiff"

LayerTags == <<"path", "rect", "text">>

InkVerbs == {"", "SelectionUnion"}

SvgFileName == "drawing.svg"

ErrSelection == "This extension requires at least 2 elements of type path, shape or text. The elements can be part of selected groups, or directly selected."

\* ----- general helpers

Range(s) == {s[i] : i \in 1..Len(s)}

Min(a, b) == IF a < b THEN a ELSE b

RECURSIVE SetToSortedSeq(_)
SetToSortedSeq(S) ==
    IF S = {} THEN <<>>
    ELSE LET m == CHOOSE x \in S : \A y \in S : x <= y
         IN  <<m>> \o SetToSortedSeq(S \ {m})

\* list.remove(x): drop the first occurrence of x
Remove(list, x) ==
    LET k == CHOOSE i \in 1..Len(list) :
                 list[i] = x /\ \A j \in 1..(i-1) : list[j] # x
    IN  SubSeq(list, 1, k-1) \o SubSeq(list, k+1, Len(list))

\* ----- the element tree

\* the last element of the subtree of element i
SubtreeEnd(d, i) ==
    CHOOSE j \in i..Len(d) :
        /\ \A k \in (i+1)..j : d[k].depth > d[i].depth
        /\ (j = Len(d) \/ d[j+1].depth <= d[i].depth)

\* "for child in node": the children of element i, in document order
Children(d, i) ==
    SetToSortedSeq({j \in (i+1)..SubtreeEnd(d, i) : d[j].depth = d[i].depth + 1})

Descendants(d, i) == (i+1)..SubtreeEnd(d, i)

Parent(d, j) ==
    CHOOSE i \in 1..(j-1) : j \in Descendants(d, i) /\ d[j].depth = d[i].depth + 1

\* ----- SVG element helper functions

is_group(node) == node.tag = "g"

is_path(node) == node.tag = "path"

is_basic_shape(node) == node.tag \in SVG_SHAPES

is_custom_shape(node) == node.type

is_shape(node) == is_basic_shape(node) \/ is_custom_shape(node)

is_text(node) == node.tag = "text"

does_pathops(node) == is_path(node) \/ is_shape(node) \/ is_text(node)

\* ----- list processing helper functions

RECURSIVE recurse_selection(_, _, _, _, _)
RECURSIVE RecurseChildren(_, _, _, _, _)

recurse_selection(d, node, ids, level, current) ==
    LET cur == current + 1
        below == IF (level = 0 \/ cur <= level) /\ is_group(d[node])
                 THEN RecurseChildren(d, Children(d, node), ids, level, cur)
                 ELSE ids
    IN  IF does_pathops(d[node]) THEN Append(below, d[node].id) ELSE below

RecurseChildren(d, children, ids, level, cur) ==
    IF children = <<>> THEN ids
    ELSE RecurseChildren(d, Tail(children),
                         recurse_selection(d, Head(children), ids, level, cur),
                         level, cur)

RECURSIVE ZIterFrom(_, _, _)
ZIterFrom(d, i, ids) ==
    IF i > Len(d) THEN <<>>
    ELSE LET element_id == d[i].id
         IN  IF element_id # None /\ element_id \in Range(ids)
             THEN <<element_id>> \o ZIterFrom(d, i + 1, Remove(ids, element_id))
             ELSE ZIterFrom(d, i + 1, ids)

\* a sort that leaves the ids in the order they were collected
z_iter_collected(d, ids) == SelectSeq(ids, LAMBDA x : x # None)

z_iter(d, ids) == ZIterFrom(d, 1, ids)

\* range(0, len(alist), max_len) from i on: empty for a negative step (a
\* step of 0 is a ValueError, and effect() never passes 0)
RECURSIVE ChunksFrom(_, _, _)
ChunksFrom(alist, max_len, i) ==
    IF max_len < 0 \/ i >= Len(alist) THEN <<>>
    ELSE <<SubSeq(alist, i + 1, Min(i + max_len, Len(alist)))>>
         \o ChunksFrom(alist, max_len, i + max_len)

\* a chunking that stops after the first chunk
chunks_short(alist, max_len) ==
    IF alist = <<>> THEN <<>>
    ELSE <<SubSeq(alist, 1, Min(max_len, Len(alist)))>>

chunks(alist, max_len) == ChunksFrom(alist, max_len, 0)

\* ----- PathOps methods

\* a Selector that ignores --recursive_sel
LevelUnlimited(opts) == 0

Level(opts) == IF opts.recursive_sel THEN 0 ELSE 1

RECURSIVE CollectSelected(_, _, _, _)
CollectSelected(d, sel, ids, level) ==
    IF sel = <<>> THEN ids
    ELSE CollectSelected(d, Tail(sel),
                         recurse_selection(d, Head(sel), ids, level, 0), level)

\* the list get_selected_ids() builds before its size check
CollectedIds(d, sel, opts) == CollectSelected(d, sel, <<>>, Level(opts))

get_selected_ids(d, sel, opts) ==
    LET ids == CollectedIds(d, sel, opts)
    IN  IF Len(ids) < 2 THEN NoList ELSE ids

\* [top_path, sorted_ids, raised]; raised: sorted_ids.pop() on an empty list
get_sorted_ids(d, sel, opts) ==
    LET ids == get_selected_ids(d, sel, opts)
    IN  IF ids = NoList
        THEN [top_path |-> None, sorted_ids |-> NoList, raised |-> FALSE]
        ELSE LET sorted_ids == z_iter(d, ids)
             IN  IF sorted_ids = <<>>
                 THEN [top_path |-> None, sorted_ids |-> <<>>, raised |-> TRUE]
                 ELSE [top_path |-> sorted_ids[Len(sorted_ids)],
                       sorted_ids |-> SubSeq(sorted_ids, 1, Len(sorted_ids) - 1),
                       raised |-> FALSE]

\* the last position of character c in name, 0 when it has none
LastIndexOf(name, c) ==
    LET at == {i \in 1..Len(name) : SubSeq(name, i, i) = c}
    IN  IF at = {} THEN 0 ELSE CHOOSE i \in at : \A j \in at : j <= i

\* os.path.splitext(name)[0]: the name up to its last dot, when that dot
\* lies in the last path component after a character that is not a dot
SplitextRoot(name) ==
    LET sep == LastIndexOf(name, "/")
        dot == LastIndexOf(name, ".")
    IN  IF /\ dot > sep
           /\ \E j \in (sep + 1)..(dot - 1) : SubSeq(name, j, j) # "."
        THEN SubSeq(name, 1, dot - 1)
        ELSE name

TempFileName == SplitextRoot(SvgFileName) \o "-pathops.svg"

RECURSIVE ChunkArgs(_, _, _)
ChunkArgs(top, chunk, ink_verb) ==
    IF chunk = <<>> THEN <<>>
    ELSE <<"--select=" \o top,
           "--verb=EditDuplicate",
           "--select=" \o Head(chunk),
           "--verb=" \o ink_verb,
           "--verb=EditDeselect">> \o ChunkArgs(top, Tail(chunk), ink_verb)

\* a command that quits without saving
CmdListNoSave(top, chunk, ink_verb) ==
    <<"inkscape">> \o ChunkArgs(top, chunk, ink_verb)
        \o <<"--verb=FileQuit", "-f", TempFileName>>

CmdList(top, chunk, ink_verb) ==
    <<"inkscape">> \o ChunkArgs(top, chunk, ink_verb)
        \o <<"--verb=FileSave", "--verb=FileQuit", "-f", TempFileName>>

MaxCountOf(opts) == IF opts.max_count = 0 THEN DefaultMaxCount ELSE opts.max_count

InkVerbOf(opts) == IF opts.ink_verb = "" THEN DefaultInkVerb ELSE opts.ink_verb

Msg(kind, what, count, num, cmd) ==
    [kind |-> kind, what |-> what, count |-> count, num |-> num, cmd |-> cmd]

\* ----- the documents and selections tried

RootElement == [depth |-> 0, tag |-> "svg", type |-> FALSE, id |-> IdNames[1]]

DepthSeqs(n) ==
    {dp \in [1..(n+1) -> 0..n] :
        /\ dp[1] = 0
        /\ \A i \in 2..(n+1) : dp[i] >= 1 /\ dp[i] <= dp[i-1] + 1}

HasChild(dp, i) == i < Len(dp) /\ dp[i+1] > dp[i]

\* nested groups: every container is a group (possibly one with a
\* sodipodi:type, as a 3D box is), every leaf a path or an image
NestedDoc(dp, special) ==
    [i \in 1..Len(dp) |->
        IF i = 1 THEN RootElement
        ELSE IF HasChild(dp, i)
             THEN [depth |-> dp[i], tag |-> "g", type |-> special[i],
                   id |-> IdNames[i]]
             ELSE [depth |-> dp[i],
                   tag |-> IF special[i] THEN "image" ELSE "path",
                   type |-> FALSE, id |-> IdNames[i]]]

NestedDocs ==
    {NestedDoc(dp, special) :
        dp \in DepthSeqs(MaxNodes), special \in [2..(MaxNodes+1) -> BOOLEAN]}

\* one layer holding n paths, shapes and texts, the last k of them without id
LayerDoc(n, k) ==
    [i \in 1..(n+2) |->
        IF i = 1 THEN RootElement
        ELSE IF i = 2
             THEN [depth |-> 1, tag |-> "g", type |-> FALSE, id |-> IdNames[2]]
             ELSE [depth |-> 2, tag |-> LayerTags[(i % 3) + 1], type |-> FALSE,
                   id |-> IF i > n + 2 - k THEN None ELSE IdNames[i]]]

LayerDocs == UNION {{LayerDoc(n, k) : k \in 0..n} : n \in 0..MaxPaths}

\* self.selected is keyed by id: distinct elements that have an id
Selections(d, maxlen) ==
    LET nodes == {i \in 2..Len(d) : d[i].id # None}
    IN  UNION {{s \in [1..m -> nodes] : \A i, j \in 1..m : i # j => s[i] # s[j]} :
                  m \in 0..maxlen}

LayerSelections(d) ==
    {<<>>, <<2>>} \cup (IF Len(d) >= 3 /\ d[3].id # None THEN {<<3, 2>>} ELSE {})

InitRun(d, sel, opts) ==
    /\ doc = d
    /\ selected = sel
    /\ options = opts
    /\ pc = "start"
    /\ id_list = <<>>
    /\ top_path = None
    /\ other_paths = NoList
    /\ batches = <<>>
    /\ chunk_no = 0
    /\ running = {}
    /\ invocations = <<>>
    /\ results = <<>>
    /\ msgs = <<>>
    /\ tempfile = [exists |-> FALSE, saved |-> <<>>]
    /\ svg_file = [exists |-> TRUE, saved |-> <<>>]
    /\ document = [source |-> "svg_file", saved |-> <<>>]

Init ==
    \E d \in LayerDocs :
      \E sel \in LayerSelections(d) :
        \E rec \in BOOLEAN, dry \in BOOLEAN, mc \in (0 - 1)..MaxCount,
           verb \in InkVerbs :
          InitRun(d, sel, [ink_verb |-> verb, max_count |-> mc,
                           recursive_sel |-> rec, dry_run |-> dry])

InitSel ==
    \E d \in NestedDocs :
      \E sel \in Selections(d, MaxSel) :
        \E rec \in BOOLEAN :
          InitRun(d, sel, [ink_verb |-> "", max_count |-> 0,
                           recursive_sel |-> rec, dry_run |-> TRUE])

\* ----- effect()

\* line 262, with get_sorted_ids() and get_selected_ids()
GetSortedIds ==
    /\ pc = "start"
    /\ LET ids == get_selected_ids(doc, selected, options)
           r == get_sorted_ids(doc, selected, options)
       IN  /\ id_list' = CollectedIds(doc, selected, options)
           /\ msgs' = IF ids = NoList
                      THEN Append(msgs, Msg("errormsg", ErrSelection, 0, 0, <<>>))
                      ELSE msgs
           /\ top_path' = r.top_path
           /\ other_paths' = r.sorted_ids
           /\ pc' = IF r.raised THEN "raised" ELSE "check"
    /\ UNCHANGED <<doc, selected, options, batches, chunk_no, running,
                   invocations, results, tempfile, svg_file, document>>

\* lines 265-266
ReturnEarly ==
    /\ pc = "check"
    /\ top_path = None \/ other_paths = NoList
    /\ pc' = "done"
    /\ UNCHANGED <<doc, selected, options, id_list, top_path, other_paths,
                   batches, chunk_no, running, invocations, results, msgs,
                   tempfile, svg_file, document>>

\* copy2(self.svg_file, tempfile)
Copy2(src) == [exists |-> TRUE, saved |-> src.saved]

\* lines 269-281: options, the temporary copy, the chunks of the loop
Prepare ==
    /\ pc = "check"
    /\ ~(top_path = None \/ other_paths = NoList)
    /\ IF options.dry_run
       THEN /\ msgs' = Append(msgs, Msg("debug", "Other paths", 0,
                                        Len(other_paths), <<>>))
            /\ UNCHANGED tempfile
       ELSE /\ tempfile' = Copy2(svg_file)
            /\ UNCHANGED msgs
    /\ batches' = chunks(other_paths, MaxCountOf(options))
    /\ chunk_no' = 1
    /\ pc' = "loop"
    /\ UNCHANGED <<doc, selected, options, id_list, top_path, other_paths,
                   running, invocations, results, svg_file, document>>

\* lines 283-301, dry run: the command is only shown
DryRunChunk ==
    /\ pc = "loop"
    /\ options.dry_run
    /\ chunk_no <= Len(batches)
    /\ LET chunk == batches[chunk_no]
           cmdlist == CmdList(top_path, chunk, InkVerbOf(options))
       IN  msgs' = msgs \o <<Msg("debug", "Chunk size", chunk_no, Len(chunk), <<>>),
                             Msg("debug", "cmdlist", chunk_no, 0, cmdlist)>>
    /\ chunk_no' = chunk_no + 1
    /\ UNCHANGED <<doc, selected, options, pc, id_list, top_path, other_paths,
                   batches, running, invocations, results, tempfile, svg_file,
                   document>>

\* a loop that starts the process of a chunk and goes on without waiting
RunSpawnNoWait ==
    /\ pc = "loop"
    /\ ~options.dry_run
    /\ chunk_no <= Len(batches)
    /\ LET cmdlist == CmdList(top_path, batches[chunk_no], InkVerbOf(options))
       IN  invocations' = Append(invocations, [batch |-> chunk_no, cmd |-> cmdlist])
    /\ running' = running \cup {chunk_no}
    /\ chunk_no' = chunk_no + 1
    /\ UNCHANGED <<doc, selected, options, pc, id_list, top_path, other_paths,
                   batches, results, msgs, tempfile, svg_file, document>>

\* lines 283-295, 303 and run() up to Popen: the process of the chunk starts
RunSpawn ==
    /\ pc = "loop"
    /\ ~options.dry_run
    /\ chunk_no <= Len(batches)
    /\ LET cmdlist == CmdList(top_path, batches[chunk_no], InkVerbOf(options))
       IN  invocations' = Append(invocations, [batch |-> chunk_no, cmd |-> cmdlist])
    /\ running' = running \cup {chunk_no}
    /\ pc' = "communicate"
    /\ UNCHANGED <<doc, selected, options, id_list, top_path, other_paths,
                   batches, chunk_no, results, msgs, tempfile, svg_file, document>>

\* a loop that gives up on the remaining chunks when a process fails
RunExitStopsOnFailure ==
    /\ pc = "communicate"
    /\ chunk_no \in running
    /\ \E returncode \in {0, 1}, saved \in BOOLEAN :
         /\ returncode = 0 => saved
         /\ results' = Append(results, [batch |-> chunk_no,
                                        returncode |-> returncode,
                                        saved |-> saved])
         /\ tempfile' = IF saved /\ tempfile.exists
                        THEN [tempfile EXCEPT !.saved = Append(@, chunk_no)]
                        ELSE tempfile
         /\ msgs' = IF returncode = 0 THEN msgs
                    ELSE Append(msgs, Msg("errormsg", "stderr", chunk_no, 0, <<>>))
         /\ chunk_no' = IF returncode = 0 THEN chunk_no + 1 ELSE Len(batches) + 1
    /\ running' = running \ {chunk_no}
    /\ pc' = "loop"
    /\ UNCHANGED <<doc, selected, options, id_list, top_path, other_paths,
                   batches, invocations, svg_file, document>>

\* run(), lines 173-177: communicate() returns when the process has exited.
\* A process that exits with 0 has saved the file it was given; one that
\* fails may or may not have saved it before.
RunExit ==
    /\ pc = "communicate"
    /\ chunk_no \in running
    /\ \E returncode \in {0, 1}, saved \in BOOLEAN :
         /\ returncode = 0 => saved
         /\ results' = Append(results, [batch |-> chunk_no,
                                        returncode |-> returncode,
                                        saved |-> saved])
         /\ tempfile' = IF saved /\ tempfile.exists
                        THEN [tempfile EXCEPT !.saved = Append(@, chunk_no)]
                        ELSE tempfile
         /\ msgs' = IF returncode = 0 THEN msgs
                    ELSE Append(msgs, Msg("errormsg", "stderr", chunk_no, 0, <<>>))
    /\ running' = running \ {chunk_no}
    /\ chunk_no' = chunk_no + 1
    /\ pc' = "loop"
    /\ UNCHANGED <<doc, selected, options, id_list, top_path, other_paths,
                   batches, invocations, svg_file, document>>

\* lines 306-311 in a dry run: nothing left to do
FinishDryRun ==
    /\ pc = "loop"
    /\ options.dry_run
    /\ chunk_no > Len(batches)
    /\ pc' = "done"
    /\ UNCHANGED <<doc, selected, options, id_list, top_path, other_paths,
                   batches, chunk_no, running, invocations, results, msgs,
                   tempfile, svg_file, document>>

\* a finish that loads and removes the temporary file in a dry run too
FinishAnyRun ==
    /\ pc = "loop"
    /\ chunk_no > Len(batches)
    /\ document' = [source |-> "tempfile", saved |-> tempfile.saved]
    /\ tempfile' = [exists |-> FALSE, saved |-> <<>>]
    /\ pc' = "done"
    /\ UNCHANGED <<doc, selected, options, id_list, top_path, other_paths,
                   batches, chunk_no, running, invocations, results, msgs,
                   svg_file>>

\* lines 306-311: the temporary copy replaces the document and is removed
Finish ==
    /\ pc = "loop"
    /\ ~options.dry_run
    /\ chunk_no > Len(batches)
    /\ document' = [source |-> "tempfile", saved |-> tempfile.saved]
    /\ tempfile' = [exists |-> FALSE, saved |-> <<>>]
    /\ pc' = "done"
    /\ UNCHANGED <<doc, selected, options, id_list, top_path, other_paths,
                   batches, chunk_no, running, invocations, results, msgs,
                   svg_file>>

Next ==
    \/ GetSortedIds
    \/ ReturnEarly
    \/ Prepare
    \/ DryRunChunk
    \/ RunSpawn
    \/ RunExit
    \/ FinishDryRun
    \/ Finish

Spec == Init /\ [][Next]_vars

\* the Selector and the document-order sort alone, over nested documents
NextSel == GetSortedIds

SpecSel == InitSel /\ [][NextSel]_vars

\* ----- what the properties below are stated with

Sorted == pc \in {"check", "loop", "communicate", "done"}

SizeCheckPassed == pc # "start" /\ Len(id_list) >= 2

UniqueIds(d) ==
    \A i, j \in 1..Len(d) : d[i].id # None /\ (i # j => d[i].id # d[j].id)

\* the ids of S listed in document depth-first pre-order
RECURSIVE PreOrderIds(_, _)
PreOrderIds(d, S) ==
    IF d = <<>> THEN <<>>
    ELSE LET rest == PreOrderIds(SubSeq(d, 1, Len(d) - 1), S)
         IN  IF d[Len(d)].id \in S THEN Append(rest, d[Len(d)].id) ELSE rest

SameElements(s, t) == Len(s) = Len(t) /\ Range(s) = Range(t)

Reorderings(sel) ==
    {s \in [1..Len(sel) -> Range(sel)] : SameElements(s, sel)}

\* n lies below r and every element from r down to the parent of n is a group
BelowThroughGroups(d, r, n) ==
    /\ n \in Descendants(d, r)
    /\ \A a \in r..(n-1) : n \in Descendants(d, a) => is_group(d[a])

NestedBelow(d, r, n, levels) ==
    n \in Descendants(d, r) /\ d[n].depth >= d[r].depth + levels

Roots == Range(selected)

IdsOf(d, S) == {d[n].id : n \in S}

OperableAnyDepth ==
    {n \in 1..Len(doc) :
        /\ does_pathops(doc[n])
        /\ n \in Roots \/ \E r \in Roots : BelowThroughGroups(doc, r, n)}

OperableOneLevel ==
    {n \in 1..Len(doc) :
        /\ does_pathops(doc[n])
        /\ n \in Roots
           \/ \E r \in Roots : is_group(doc[r]) /\ n \in Range(Children(doc, r))}

\* the operable elements the Selector reaches under the setting of the run
Found == IF options.recursive_sel THEN OperableAnyDepth ELSE OperableOneLevel

RECURSIVE Concat(_)
Concat(ss) == IF ss = <<>> THEN <<>> ELSE Head(ss) \o Concat(Tail(ss))

CeilDiv(a, b) == (a + b - 1) \div b

\* the batches whose process saved the temporary file, in the order they ran
RECURSIVE SavedBatches(_)
SavedBatches(rs) ==
    IF rs = <<>> THEN <<>>
    ELSE IF Head(rs).saved THEN <<Head(rs).batch>> \o SavedBatches(Tail(rs))
         ELSE SavedBatches(Tail(rs))

\* the commands of the run: started, or in a dry run only shown
ShownCmds == SelectSeq(msgs, LAMBDA m : m.what = "cmdlist")

RunCmds ==
    IF options.dry_run
    THEN [k \in 1..Len(ShownCmds) |->
             [batch |-> ShownCmds[k].count, cmd |-> ShownCmds[k].cmd]]
    ELSE invocations

ErrorShown(what, count) ==
    \E k \in 1..Len(msgs) :
        msgs[k].kind = "errormsg" /\ msgs[k].what = what /\ msgs[k].count = count

Untouched ==
    /\ running = {}
    /\ invocations = <<>>
    /\ ~tempfile.exists
    /\ document = [source |-> "svg_file", saved |-> <<>>]

Reverse(s) == [i \in 1..Len(s) |-> s[Len(s) + 1 - i]]

LastInPreOrder(d, S) ==
    d[CHOOSE n \in 1..Len(d) :
          d[n].id \in S /\ \A m \in 1..Len(d) : d[m].id \in S => m <= n].id

\* ----- properties of the Selector and of the document-order sort (SpecSel)

\* C1: over a document with unique ids, when at least 2 ids were collected,
\* the operands followed by the top element are exactly the collected ids in
\* document pre-order, whatever the order they were collected in; the top
\* element is the collected id that comes last and is not among the operands.
C1_SortedInDocumentOrder ==
    (Sorted /\ UniqueIds(doc) /\ Len(id_list) >= 2) =>
        /\ other_paths \o <<top_path>> = PreOrderIds(doc, Range(id_list))
        /\ \A s \in Reorderings(selected) :
              get_sorted_ids(doc, s, options) =
                  [top_path |-> top_path, sorted_ids |-> other_paths,
                   raised |-> FALSE]
        /\ z_iter(doc, Reverse(id_list)) = other_paths \o <<top_path>>
        /\ top_path = LastInPreOrder(doc, Range(id_list))
        /\ top_path \notin Range(other_paths)

\* ids collected across nested groups, in an order that is not document order
C1_Witness ==
    /\ Sorted /\ UniqueIds(doc)
    /\ Len(selected) >= 2
    /\ Len(other_paths) >= 2
    /\ id_list # other_paths \o <<top_path>>
    /\ \E n \in 1..Len(doc) : doc[n].depth >= 3 /\ doc[n].id \in Range(id_list)

\* C8 as stated: with unlimited recursion every operable root or descendant
\* of a root is collected; limited to one level, exactly the operable roots
\* and the operable direct children of selected groups are collected, and
\* never an element nested two or more levels below a selected root; an
\* operable root that is not a group is collected under both settings.
C8_NeverTwoLevelsBelow ==
    pc # "start" =>
        /\ options.recursive_sel =>
              IdsOf(doc, OperableAnyDepth) \subseteq Range(id_list)
        /\ ~options.recursive_sel =>
              /\ Range(id_list) = IdsOf(doc, OperableOneLevel)
              /\ \A r \in Roots : \A n \in 1..Len(doc) :
                    NestedBelow(doc, r, n, 2) => doc[n].id \notin Range(id_list)
        /\ \A r \in Roots :
              does_pathops(doc[r]) /\ ~is_group(doc[r]) =>
                  doc[r].id \in Range(id_list)

\* C8 amended: as above, but an element nested two or more levels below a
\* selected root is left out only when it is not itself selected and not a
\* direct child of another selected group.
C8_SelectorDepth ==
    pc # "start" =>
        /\ options.recursive_sel =>
              IdsOf(doc, OperableAnyDepth) \subseteq Range(id_list)
        /\ ~options.recursive_sel =>
              /\ Range(id_list) = IdsOf(doc, OperableOneLevel)
              /\ \A r \in Roots : \A n \in 1..Len(doc) :
                    (/\ NestedBelow(doc, r, n, 2)
                     /\ n \notin Roots
                     /\ Parent(doc, n) \notin Roots)
                        => doc[n].id \notin Range(id_list)
        /\ \A r \in Roots :
              does_pathops(doc[r]) /\ ~is_group(doc[r]) =>
                  doc[r].id \in Range(id_list)

\* one level only: an operable element two levels below a selected group is
\* left out while a direct child of that group is collected
C8_Witness ==
    /\ pc # "start" /\ ~options.recursive_sel
    /\ \E r \in Roots :
         /\ \E n \in 1..Len(doc) :
              /\ NestedBelow(doc, r, n, 2) /\ does_pathops(doc[n])
              /\ doc[n].id \notin Range(id_list)
         /\ \E c \in Range(Children(doc, r)) : doc[c].id \in Range(id_list)

\* C9: no id of a group is ever collected, nor becomes the top element or
\* an operand.
C9_NoGroupCollected ==
    \A n \in 1..Len(doc) :
        is_group(doc[n]) =>
            /\ doc[n].id \notin Range(id_list)
            /\ doc[n].id # top_path
            /\ other_paths # NoList => doc[n].id \notin Range(other_paths)

\* ----- properties of a run of effect() (Spec)

Chunked == pc \in {"loop", "communicate"} \/ (pc = "done" /\ other_paths # NoList)

ChunkSizes(ss) == [k \in 1..Len(ss) |-> Len(ss[k])]

ChunksExample ==
    ChunkSizes(chunks([i \in 1..1050 |-> i], 500)) = <<500, 500, 50>>

\* C2: for a maximum batch size M >= 1, a list of length L is cut into
\* ceil(L/M) batches, each of size M except possibly the last, which has
\* between 1 and M elements; the batches concatenated in order give the list
\* back; 1050 by 500 gives 500, 500, 50.
C2_ChunksPartition ==
    (Chunked /\ MaxCountOf(options) >= 1) =>
        LET L == Len(other_paths)
            M == MaxCountOf(options)
        IN  /\ Len(batches) = CeilDiv(L, M)
            /\ \A k \in 1..(Len(batches) - 1) : Len(batches[k]) = M
            /\ batches # <<>> =>
                  /\ Len(batches[Len(batches)]) >= 1
                  /\ Len(batches[Len(batches)]) <= M
            /\ Concat(batches) = other_paths
            /\ ChunksExample

\* several batches, the last one shorter than the others
C2_Witness ==
    /\ pc = "done"
    /\ Len(batches) >= 2
    /\ Len(batches[1]) >= 2
    /\ Len(batches[Len(batches)]) < MaxCountOf(options)

\* C3: when the Selector finds fewer than 2 operable elements, an error
\* message is shown and the run ends with no process started, no temporary
\* file created and the document unchanged.
C3_TooFewElements ==
    (pc # "start" /\ Cardinality(Found) < 2) =>
        /\ ErrorShown(ErrSelection, 0)
        /\ pc \in {"check", "done"}
        /\ Untouched

\* C4: a dry run starts no process, leaves the source file alone, neither
\* creates nor removes a temporary file, keeps the document, and shows the
\* command of every batch.
C4_DryRunTouchesNothing ==
    options.dry_run =>
        /\ Untouched
        /\ results = <<>>
        /\ svg_file = [exists |-> TRUE, saved |-> <<>>]
        /\ pc = "done" /\ other_paths # NoList =>
              /\ Len(ShownCmds) = Len(batches)
              /\ \A k \in 1..Len(batches) :
                    /\ ShownCmds[k].kind = "debug"
                    /\ ShownCmds[k].count = k
                    /\ ShownCmds[k].cmd =
                          CmdList(top_path, batches[k], InkVerbOf(options))

\* a finished dry run over several batches
C4_Witness ==
    /\ options.dry_run
    /\ pc = "done"
    /\ Len(batches) >= 2
    /\ Len(ShownCmds) = Len(batches)

\* C5: processes run one after another in batch order, at most one at a
\* time, all on the same temporary file, which is read back only after the
\* last one has exited.
C5_OneProcessAtATime ==
    ~options.dry_run =>
        /\ Cardinality(running) <= 1
        /\ \A k \in 1..Len(invocations) : invocations[k].batch = k
        /\ \A k \in 1..Len(results) : results[k].batch = k
        /\ Len(results) <= Len(invocations)
        /\ Len(invocations) <= Len(results) + 1
        /\ running = {k \in 1..Len(invocations) : k > Len(results)}
        /\ \A k \in 1..Len(invocations) :
              LET cmd == invocations[k].cmd
              IN  cmd[Len(cmd)] = TempFileName /\ cmd[Len(cmd) - 1] = "-f"
        /\ document.source = "tempfile" =>
              /\ running = {}
              /\ Len(results) = Len(batches)
              /\ Len(invocations) = Len(batches)

\* the document was read back after two or more processes
C5_Witness ==
    /\ ~options.dry_run
    /\ pc = "done"
    /\ Len(results) >= 2
    /\ document.source = "tempfile"

\* C6: whatever the exit codes, every batch is invoked exactly once; a
\* failed process has its stderr shown, is not invoked again, what it or any
\* other process saved stays in the temporary file, the remaining batches
\* still run and the temporary file becomes the document.
C6_FailureDoesNotStopTheRun ==
    ~options.dry_run =>
        /\ \A j, k \in 1..Len(invocations) :
              invocations[j].batch = invocations[k].batch => j = k
        /\ \A k \in 1..Len(results) :
              results[k].returncode # 0 <=> ErrorShown("stderr", results[k].batch)
        /\ tempfile.exists => tempfile.saved = SavedBatches(results)
        /\ pc = "done" /\ other_paths # NoList =>
              /\ Len(invocations) = Len(batches)
              /\ {invocations[k].batch : k \in 1..Len(invocations)}
                    = 1..Len(batches)
              /\ Len(results) = Len(batches)
              /\ document = [source |-> "tempfile",
                             saved |-> SavedBatches(results)]

\* a batch failed after saving, and a later batch still ran
C6_Witness ==
    /\ ~options.dry_run
    /\ pc = "done"
    /\ Len(results) >= 2
    /\ results[1].returncode # 0 /\ results[1].saved
    /\ Len(invocations) = Len(batches)
    /\ document.saved # <<>>

\* the operand an operation step of a command is applied to
TargetArgs(cmd) ==
    [j \in 1..((Len(cmd) - 5) \div 5) |-> cmd[1 + 5 * (j - 1) + 3]]

AllTargetArgs == Concat([k \in 1..Len(RunCmds) |-> TargetArgs(RunCmds[k].cmd)])

\* C7: the command of a batch is the executable, five steps per operand in
\* batch order (select top, duplicate, select the operand, the configured
\* verb, deselect), save, quit, and the temporary file; over a whole run
\* with a positive maximum batch size (the documented range of --max_count;
\* 0 stands for the default) every operand is the target of exactly one step,
\* and the top never is.
C7_CommandOfABatch ==
    /\ \A k \in 1..Len(RunCmds) :
          LET cmd == RunCmds[k].cmd
              chunk == batches[RunCmds[k].batch]
              n == Len(chunk)
          IN  /\ Len(cmd) = 1 + 5 * n + 4
              /\ cmd[1] = "inkscape"
              /\ \A j \in 1..n :
                    /\ cmd[5 * j - 3] = "--select=" \o top_path
                    /\ cmd[5 * j - 2] = "--verb=EditDuplicate"
                    /\ cmd[5 * j - 1] = "--select=" \o chunk[j]
                    /\ cmd[5 * j] = "--verb=" \o InkVerbOf(options)
                    /\ cmd[5 * j + 1] = "--verb=EditDeselect"
              /\ cmd[5 * n + 2] = "--verb=FileSave"
              /\ cmd[5 * n + 3] = "--verb=FileQuit"
              /\ cmd[5 * n + 4] = "-f"
              /\ cmd[5 * n + 5] = TempFileName
    /\ "--select=" \o top_path \notin Range(AllTargetArgs)
    /\ pc = "done" /\ other_paths # NoList /\ MaxCountOf(options) >= 1 =>
          AllTargetArgs = [j \in 1..Len(other_paths) |->
                              "--select=" \o other_paths[j]]

\* a finished run of several batches with a configured verb
C7_Witness ==
    /\ pc = "done"
    /\ options.ink_verb # ""
    /\ Len(RunCmds) >= 2
    /\ Len(batches[1]) >= 2

\* C10: whenever the collected list has at least 2 entries, get_sorted_ids
\* completes and returns a top element and at least one operand, and a run
\* that is not a dry run invokes at least one process.
C10_SizeCheckSuffices ==
    SizeCheckPassed =>
        /\ pc # "raised"
        /\ top_path # None
        /\ other_paths # NoList
        /\ Len(other_paths) >= 1
        /\ pc = "done" /\ ~options.dry_run => Len(invocations) >= 1

====
